---------------------------- MODULE Spec2Model ----------------------------
(***************************************************************************)
(* A model of the two scripts of the repository.                           *)
(*                                                                         *)
(*   text_analyzer.py : analyze_text(filename) and the unittest fixture    *)
(*                      (setUp / tearDown) that surrounds it.              *)
(*   shipping.py      : ShippingContainer / RefrigeratedShippingContainer  *)
(*                      and the class-wide serial counter.                 *)
(*                                                                         *)
(* Files are sequences of bytes (0..255); text is a sequence of code       *)
(* points.  open(filename, "r") reads through the host's default encoding  *)
(* and with universal newlines, in chunks, as the text layer of the        *)
(* interpreter does.                                                       *)
(***************************************************************************)
EXTENDS Integers, Sequences, FiniteSets, TLC

VARIABLES
    fs,          \* the file system: path -> entry
    encoding,    \* the host's default text encoding
    linesep,     \* the host's os.linesep, as bytes
    pc,          \* position of the analyze_text call
    filename,    \* analyze_text's argument
    lines,       \* analyze_text's local 'lines'
    chars,       \* analyze_text's local 'chars'
    f,           \* the file object opened by analyze_text
    result,      \* the tuple returned to the caller, <<>> when none
    exc,         \* the exception raised to the caller, "None" when none
    fsAtCall,    \* history: the file system when the call started
    seen,        \* history: the lines the loop has iterated in this call
    prev,        \* history: the outcome of the previous call
    next_serial, \* ShippingContainer.next_serial
    containers,  \* the containers built so far, in order
    serials,     \* history: the values _get_next_serial has returned
    initRuns,    \* history: how often ShippingContainer.__init__ has run
    attempts,    \* history: number of constructor calls made
    discarded,   \* history: serials taken by constructions that raised
    last         \* history: the last constructor call and how it ended

textVars == <<fs, encoding, linesep, pc, filename, lines, chars, f, result,
              exc, fsAtCall, seen, prev>>
shipVars == <<next_serial, containers, serials, initRuns, attempts,
              discarded, last>>
vars == <<fs, encoding, linesep, pc, filename, lines, chars, f, result,
          exc, fsAtCall, seen, prev, next_serial, containers, serials, initRuns,
          attempts, discarded, last>>

(***************************************************************************)
(* Bounds of the model.                                                    *)
(***************************************************************************)
MaxLen == 3              \* longest file content drawn initially, in bytes
ChunkSize == 2           \* bytes per read of the text layer (scaled down)
MaxConstructions == 3    \* constructor calls per behaviour
BlockLen == 16           \* bytes per step when a whole file is decoded at once

\* 'a', "\n", "\r", and the two bytes of UTF-8 'e acute' (0xC3 0xA9).
ByteAlphabet == {97, 10, 13, 195, 169}

(***************************************************************************)
(* Sequences.                                                              *)
(***************************************************************************)
Min(a, b) == IF a < b THEN a ELSE b

SeqsUpTo(S, n) == UNION {[1..k -> S] : k \in 0..n}

Front(s) == SubSeq(s, 1, Len(s) - 1)

Drop(s, n) == SubSeq(s, n + 1, Len(s))

(***************************************************************************)
(* Text: code points, newline characters, the exception hierarchy.         *)
(***************************************************************************)
LF == 10
CR == 13

\* issubclass(e, cls) for the built-in exceptions that occur here.
\* IOError is an alias of OSError.
Bases(e) ==
    CASE e = "FileNotFoundError"    -> {"FileNotFoundError", "OSError", "IOError"}
      [] e = "IsADirectoryError"    -> {"IsADirectoryError", "OSError", "IOError"}
      [] e = "PermissionError"      -> {"PermissionError", "OSError", "IOError"}
      [] e = "OSError"              -> {"OSError", "IOError"}
      [] e = "UnsupportedOperation" -> {"UnsupportedOperation", "OSError",
                                        "IOError", "ValueError"}
      [] e = "UnicodeDecodeError"   -> {"UnicodeDecodeError", "UnicodeError",
                                        "ValueError"}
      [] e = "ValueError"           -> {"ValueError"}
      [] e = "TypeError"            -> {"TypeError"}
      [] OTHER                      -> {}

IsInstance(e, cls) == cls \in Bases(e)

(***************************************************************************)
(* Decoding.  Utf8Decode is the incremental UTF-8 decoder restricted to    *)
(* one- and two-byte sequences: an incomplete sequence at the end of the   *)
(* input is carried over unless the input is final.                        *)
(***************************************************************************)
DecodeError == [ok |-> FALSE, out |-> <<>>, carry |-> <<>>]

RECURSIVE Utf8Decode(_, _, _)
Utf8Decode(bs, final, acc) ==
    IF bs = <<>> THEN [ok |-> TRUE, out |-> acc, carry |-> <<>>]
    ELSE LET b == Head(bs) IN
         IF b < 128 THEN Utf8Decode(Tail(bs), final, Append(acc, b))
         ELSE IF b \in 194..223 THEN
             IF Len(bs) = 1 THEN
                 IF final THEN DecodeError
                 ELSE [ok |-> TRUE, out |-> acc, carry |-> bs]
             ELSE IF bs[2] \in 128..191 THEN
                 Utf8Decode(Drop(bs, 2), final,
                            Append(acc, (b - 192) * 64 + (bs[2] - 128)))
             ELSE DecodeError
         ELSE DecodeError

Decode(enc, bs, final) ==
    IF enc = "utf-8" THEN Utf8Decode(bs, final, <<>>)
    ELSE [ok |-> TRUE, out |-> bs, carry |-> <<>>]      \* latin-1

\* str.encode for one code point below 2048.
EncodeChar(enc, c) ==
    IF c < 128 \/ enc = "latin-1" THEN <<c>>
    ELSE <<192 + (c \div 64), 128 + (c % 64)>>

RECURSIVE Encode(_, _)
Encode(enc, cs) ==
    IF cs = <<>> THEN <<>>
    ELSE IF Len(cs) = 1 THEN EncodeChar(enc, cs[1])
    ELSE LET m == Len(cs) \div 2 IN
         Encode(enc, SubSeq(cs, 1, m)) \o Encode(enc, Drop(cs, m))

(***************************************************************************)
(* Universal newlines on reading: "\r\n" and "\r" become "\n".  A "\r"     *)
(* that ends a chunk is held back until the next chunk shows whether a     *)
(* "\n" follows it.                                                        *)
(***************************************************************************)
RECURSIVE Translate(_)
Translate(cs) ==
    IF cs = <<>> THEN <<>>
    ELSE IF Head(cs) = CR THEN
        IF Len(cs) >= 2 /\ cs[2] = LF THEN <<LF>> \o Translate(Drop(cs, 2))
        ELSE <<LF>> \o Translate(Tail(cs))
    ELSE <<Head(cs)>> \o Translate(Tail(cs))

NLDecode(pendingcr, out, final) ==
    LET flush == pendingcr /\ (out # <<>> \/ final)
        o1    == IF flush THEN <<CR>> \o out ELSE out
        p1    == IF flush THEN FALSE ELSE pendingcr
        hold  == ~final /\ o1 # <<>> /\ o1[Len(o1)] = CR
    IN  [out       |-> Translate(IF hold THEN Front(o1) ELSE o1),
         pendingcr |-> IF hold THEN TRUE ELSE p1]

\* Newline translation on writing: "\n" becomes os.linesep.
RECURSIVE WriteTranslate(_, _)
WriteTranslate(cs, sep) ==
    IF cs = <<>> THEN <<>>
    ELSE IF Len(cs) = 1 THEN (IF cs[1] = LF THEN sep ELSE cs)
    ELSE LET m == Len(cs) \div 2 IN
         WriteTranslate(SubSeq(cs, 1, m), sep) \o WriteTranslate(Drop(cs, m), sep)

(***************************************************************************)
(* The file system and open().                                             *)
(***************************************************************************)
TestFile == "text_analysis_test_file.txt"
Paths == {TestFile, "foobar"}

Missing == [kind |-> "missing", readable |-> FALSE, data |-> <<>>]
Dir     == [kind |-> "dir", readable |-> TRUE, data |-> <<>>]
File(r, d) == [kind |-> "file", readable |-> r, data |-> d]

NoHandle == [state |-> "none", mode |-> "r", pos |-> 0, carry |-> <<>>,
             pendingcr |-> FALSE, buf |-> <<>>, eof |-> FALSE]

NewHandle(mode) == [NoHandle EXCEPT !.state = "open", !.mode = mode]

OpenFileAppendPlus(fsx, path, mode) ==
    LET e == fsx[path] IN
    IF e.kind = "dir" THEN [exc |-> "IsADirectoryError", fs |-> fsx, h |-> NoHandle]
    ELSE IF e.kind = "file" /\ ~e.readable
        THEN [exc |-> "PermissionError", fs |-> fsx, h |-> NoHandle]
    ELSE [exc |-> "None", h |-> NewHandle("r"),
          fs  |-> IF e.kind = "missing"
                  THEN [fsx EXCEPT ![path] = File(TRUE, <<>>)] ELSE fsx]

\* open(path, mode) for the two modes the source uses, "r" and "w".
OpenFile(fsx, path, mode) ==
    LET e == fsx[path] IN
    IF e.kind = "dir" THEN [exc |-> "IsADirectoryError", fs |-> fsx, h |-> NoHandle]
    ELSE IF e.kind = "file" /\ ~e.readable
        THEN [exc |-> "PermissionError", fs |-> fsx, h |-> NoHandle]
    ELSE IF mode = "w"
        THEN [exc |-> "None", h |-> NewHandle("w"),
              fs  |-> [fsx EXCEPT ![path] = File(TRUE, <<>>)]]
    ELSE IF e.kind = "missing"
        THEN [exc |-> "FileNotFoundError", fs |-> fsx, h |-> NoHandle]
    ELSE [exc |-> "None", fs |-> fsx, h |-> NewHandle("r")]

(***************************************************************************)
(* The text layer: one chunk read, and readline on top of it.              *)
(***************************************************************************)
ReadChunk(h, data, enc) ==
    LET chunk == SubSeq(data, h.pos + 1, Min(h.pos + ChunkSize, Len(data)))
        eof   == chunk = <<>>
        dec   == Decode(enc, h.carry \o chunk, eof)
        nl    == NLDecode(h.pendingcr, dec.out, eof)
    IN  IF ~dec.ok THEN [ok |-> FALSE, h |-> h]
        ELSE [ok |-> TRUE,
              h  |-> [h EXCEPT !.pos = h.pos + Len(chunk),
                               !.carry = dec.carry,
                               !.pendingcr = nl.pendingcr,
                               !.buf = h.buf \o nl.out,
                               !.eof = eof]]

HasLF(cs) == \E i \in 1..Len(cs) : cs[i] = LF

FirstLF(cs) == CHOOSE i \in 1..Len(cs) :
                   cs[i] = LF /\ \A j \in 1..(i - 1) : cs[j] # LF

\* next(f): "line" with the line, "stop" at the end of the file, or the
\* name of the exception raised.  ioerr: the operating system fails the
\* first read this step needs.
RECURSIVE ReadLine(_, _, _, _)
ReadLine(h, data, enc, ioerr) ==
    IF h.mode # "r" THEN [status |-> "UnsupportedOperation", line |-> <<>>, h |-> h]
    ELSE IF HasLF(h.buf) THEN
        LET n == FirstLF(h.buf) IN
        [status |-> "line", line |-> SubSeq(h.buf, 1, n),
         h |-> [h EXCEPT !.buf = Drop(h.buf, n)]]
    ELSE IF h.eof THEN
        IF h.buf = <<>> THEN [status |-> "stop", line |-> <<>>, h |-> h]
        ELSE [status |-> "line", line |-> h.buf, h |-> [h EXCEPT !.buf = <<>>]]
    ELSE IF ioerr THEN [status |-> "OSError", line |-> <<>>, h |-> h]
    ELSE LET r == ReadChunk(h, data, enc) IN
         IF ~r.ok THEN [status |-> "UnicodeDecodeError", line |-> <<>>, h |-> h]
         ELSE ReadLine(r.h, data, enc, FALSE)

(***************************************************************************)
(* analyze_text.                                                           *)
(***************************************************************************)
CarriedLines == lines
FreshLines == 0

FreshChars == 0

AnalyzeModeW == "w"
AnalyzeMode == "r"

ForBodyCountNewlines(l, c, line) ==
    [lines |-> IF line[Len(line)] = LF THEN l + 1 ELSE l,
     chars |-> c + Len(line)]

ForBodyStrip(l, c, line) ==
    [lines |-> l + 1,
     chars |-> IF line[Len(line)] = LF THEN c + Len(line) - 1 ELSE c + Len(line)]

\* lines += 1; chars += len(line)
ForBody(l, c, line) == [lines |-> l + 1, chars |-> c + Len(line)]

WithExitLeak(h) == h

\* The with statement's exit: f.close().
WithExit(h) == [h EXCEPT !.state = "closed"]

OnErrorReturnPartial(l, c, e) ==
    [pc |-> "returned", result |-> <<l, c>>, exc |-> "None"]

\* An exception inside the with block is not caught: it reaches the caller.
OnError(l, c, e) == [pc |-> "raised", result |-> <<>>, exc |-> e]

NoPrev == [valid |-> FALSE, path |-> "", result |-> <<>>, exc |-> "None"]

\* lines = 0; chars = 0; open(filename, "r")
Call(path) ==
    /\ pc = "idle"
    /\ LET o == OpenFile(fs, path, AnalyzeMode) IN
       /\ filename' = path
       /\ lines' = FreshLines
       /\ chars' = FreshChars
       /\ fsAtCall' = fs
       /\ seen' = <<>>
       /\ fs' = o.fs
       /\ f' = o.h
       /\ IF o.exc = "None"
          THEN pc' = "loop" /\ result' = <<>> /\ exc' = "None"
          ELSE LET r == OnError(FreshLines, FreshChars, o.exc) IN
               pc' = r.pc /\ result' = r.result /\ exc' = r.exc
    /\ UNCHANGED <<encoding, linesep, prev>>
    /\ UNCHANGED shipVars

\* One turn of 'for line in f', or the end of the loop.
ForLine(ioerr) ==
    /\ pc = "loop"
    /\ LET r == ReadLine(f, fs[filename].data, encoding, ioerr) IN
       IF r.status = "line" THEN
           LET b == ForBody(lines, chars, r.line) IN
           /\ lines' = b.lines
           /\ chars' = b.chars
           /\ f' = r.h
           /\ seen' = Append(seen, r.line)
           /\ UNCHANGED <<pc, result, exc>>
       ELSE IF r.status = "stop" THEN
           /\ pc' = "return"
           /\ f' = r.h
           /\ UNCHANGED <<lines, chars, result, exc, seen>>
       ELSE
           LET x == OnError(lines, chars, r.status) IN
           /\ pc' = x.pc
           /\ result' = x.result
           /\ exc' = x.exc
           /\ f' = WithExit(r.h)
           /\ UNCHANGED <<lines, chars, seen>>
    /\ UNCHANGED <<fs, encoding, linesep, filename, fsAtCall, prev>>
    /\ UNCHANGED shipVars

\* return (lines, chars), leaving the with block.
Return ==
    /\ pc = "return"
    /\ result' = <<lines, chars>>
    /\ f' = WithExit(f)
    /\ pc' = "returned"
    /\ UNCHANGED <<fs, encoding, linesep, filename, lines, chars, exc,
                   fsAtCall, seen, prev>>
    /\ UNCHANGED shipVars

\* The caller takes the outcome; the next call may start.
Done ==
    /\ pc \in {"returned", "raised"}
    /\ prev' = [valid |-> TRUE, path |-> filename, result |-> result,
                exc |-> exc]
    /\ pc' = "idle"
    /\ f' = NoHandle
    /\ result' = <<>>
    /\ exc' = "None"
    /\ seen' = <<>>
    /\ UNCHANGED <<fs, encoding, linesep, filename, lines, chars, fsAtCall>>
    /\ UNCHANGED shipVars

(***************************************************************************)
(* The test fixture.                                                       *)
(***************************************************************************)
FixtureText ==
    << 78, 111, 119, 32, 119, 101, 32, 97, 114, 101, 32, 101, 110, 103, 97, 103,
       101, 100, 32, 105, 110, 32, 97, 32, 103, 114, 101, 97, 116, 32, 99, 105,
       118, 105, 108, 32, 119, 97, 114, 46, 10, 116, 101, 115, 116, 105, 110, 103,
       32, 119, 104, 101, 116, 104, 101, 114, 32, 116, 104, 97, 116, 32, 110, 97,
       116, 105, 111, 110, 44, 10, 111, 114, 32, 97, 110, 121, 32, 110, 97, 116,
       105, 111, 110, 32, 115, 111, 32, 99, 111, 110, 99, 101, 105, 118, 101, 100,
       32, 97, 110, 100, 32, 115, 111, 32, 100, 101, 100, 105, 99, 97, 116, 101,
       100, 44, 10, 99, 97, 110, 32, 108, 111, 110, 103, 32, 101, 110, 100, 117,
       114, 101, 46 >>

Encodings == {"utf-8", "latin-1"}
Lineseps == {<<LF>>, <<CR, LF>>}

\* What f.write(text) leaves in the file, for each host.
FixtureBytes ==
    [enc \in Encodings, sep \in Lineseps |->
        Encode(enc, WriteTranslate(FixtureText, sep))]

\* setUp: with open(self.filename, "w") as f: f.write(...)
SetUp ==
    /\ pc = "idle"
    /\ LET o == OpenFile(fs, TestFile, "w") IN
       /\ o.exc = "None"
       /\ fs' = [o.fs EXCEPT ![TestFile] =
                     File(TRUE, FixtureBytes[encoding, linesep])]
    /\ prev' = NoPrev
    /\ fsAtCall' = fs'
    /\ UNCHANGED <<encoding, linesep, pc, filename, lines, chars, f, result,
                   exc, seen>>
    /\ UNCHANGED shipVars

\* tearDown: os.remove(self.filename), any exception swallowed.
TearDown ==
    /\ pc = "idle"
    /\ fs' = IF fs[TestFile].kind = "file"
             THEN [fs EXCEPT ![TestFile] = Missing] ELSE fs
    /\ prev' = NoPrev
    /\ fsAtCall' = fs'
    /\ UNCHANGED <<encoding, linesep, pc, filename, lines, chars, f, result,
                   exc, seen>>
    /\ UNCHANGED shipVars

(***************************************************************************)
(* Initial states and the specification of the text analyzer.              *)
(***************************************************************************)
Contents == SeqsUpTo(ByteAlphabet, MaxLen)

InitEntries ==
    {Missing, Dir}
    \cup {File(TRUE, d) : d \in Contents}
    \cup {File(FALSE, d) : d \in SeqsUpTo(ByteAlphabet, 1)}

(***************************************************************************)
(* shipping.py.  A BIC code is kept as its components (owner code,         *)
(* category, six-digit serial); the check digit iso6346 appends is a       *)
(* function of them.  Strings of digits are sequences of digits.           *)
(***************************************************************************)
FirstSerial == 1964
MAX_CELSIUS == 4

Base == "ShippingContainer"
Refrigerated == "RefrigeratedShippingContainer"
Classes == {Base, Refrigerated}

\* An owner code of main(), and one that is not three letters.
OwnerCodes == {"YML", "XX"}
ValidOwner(o) == o \in {"YML", "MAE"}

\* Temperatures tried: at the limit and above it.
Celsius == {4, 5}

NoneContents == [kind |-> "None", items |-> <<>>]
StrContents(x) == [kind |-> "str", items |-> <<x>>]
ListContents(xs) == [kind |-> "list", items |-> xs]

NoBic == [owner_code |-> "", category |-> "", serial |-> <<>>]
NoObject == [cls |-> "None", owner_code |-> "", contents |-> NoneContents,
             bic |-> NoBic, has_celsius |-> FALSE, celsius |-> 0]

NoAttempt == [cls |-> "None", given |-> "absent", celsius |-> 0,
              exc |-> "None", before |-> 0, built |-> FALSE]

\* str(n) for n >= 0
RECURSIVE Str(_)
Str(n) == IF n < 10 THEN <<n>> ELSE Append(Str(n \div 10), n % 10)

\* s.zfill(w)
ZFill(s, w) == IF Len(s) >= w THEN s ELSE [i \in 1..(w - Len(s)) |-> 0] \o s

\* iso6346.create: rejects an owner code that is not three letters and a
\* serial that is not six digits.
Iso6346Create(owner_code, serial, category) ==
    IF ValidOwner(owner_code) /\ Len(serial) = 6
    THEN [exc |-> "None",
          code |-> [owner_code |-> owner_code, category |-> category,
                    serial |-> serial]]
    ELSE [exc |-> "ValueError", code |-> NoBic]

\* self._make_bic_code: the static method of the object's class.
MakeBicCode(cls, owner_code, serial) ==
    IF cls = Refrigerated
    THEN Iso6346Create(owner_code, ZFill(Str(serial), 6), "R")
    ELSE Iso6346Create(owner_code, ZFill(Str(serial), 6), "U")

GetNextSerialNoIncrement(ns) == [result |-> ns, next_serial |-> ns]

\* result = next_serial; next_serial += 1; return result
GetNextSerial(ns) == [result |-> ns, next_serial |-> ns + 1]

\* ShippingContainer.__init__ on an object of class cls.
ShippingContainerInit(ns, cls, owner_code, contents) ==
    LET g == GetNextSerial(ns)
        b == MakeBicCode(cls, owner_code, g.result)
    IN  [exc |-> b.exc, next_serial |-> g.next_serial, taken |-> <<g.result>>,
         runs |-> 1,
         obj |-> [NoObject EXCEPT !.cls = cls, !.owner_code = owner_code,
                                  !.contents = contents, !.bic = b.code]]

RefrigeratedInitCheckFirst(ns, owner_code, contents, celsius) ==
    IF celsius > MAX_CELSIUS
    THEN [exc |-> "ValueError", next_serial |-> ns, taken |-> <<>>, runs |-> 0,
          obj |-> NoObject]
    ELSE LET s == ShippingContainerInit(ns, Refrigerated, owner_code, contents) IN
         IF s.exc # "None" THEN s
         ELSE [s EXCEPT !.obj.has_celsius = TRUE, !.obj.celsius = celsius]

\* RefrigeratedShippingContainer.__init__
RefrigeratedInit(ns, owner_code, contents, celsius) ==
    LET s == ShippingContainerInit(ns, Refrigerated, owner_code, contents) IN
    IF s.exc # "None" THEN s
    ELSE IF celsius > MAX_CELSIUS THEN [s EXCEPT !.exc = "ValueError"]
    ELSE [s EXCEPT !.obj.has_celsius = TRUE, !.obj.celsius = celsius]

ArgError(ns) == [exc |-> "TypeError", next_serial |-> ns, taken |-> <<>>,
                 runs |-> 0, obj |-> NoObject]

\* cls(owner_code, contents[, celsius]): the arguments are bound to the
\* parameters of cls.__init__, then __init__ runs.  given: how celsius is
\* passed, "absent", "positional" or "keyword".
Construct(ns, cls, owner_code, contents, given, celsius) ==
    IF cls = Base THEN
        IF given # "absent" THEN ArgError(ns)
        ELSE ShippingContainerInit(ns, Base, owner_code, contents)
    ELSE
        IF given = "absent" THEN ArgError(ns)
        ELSE RefrigeratedInit(ns, owner_code, contents, celsius)

\* cls(owner_code, contents=..., *args, **kwargs) as the class methods call
\* it: a positional extra argument lands on 'contents', which the keyword
\* already gives.
ConstructVia(ns, cls, owner_code, contents, given, celsius) ==
    IF given = "positional" THEN ArgError(ns)
    ELSE Construct(ns, cls, owner_code, contents, given, celsius)

\* The state after a constructor call that ended as r.
Apply(r, cls, given, celsius) ==
    /\ attempts' = attempts + 1
    /\ next_serial' = r.next_serial
    /\ serials' = serials \o r.taken
    /\ initRuns' = initRuns + r.runs
    /\ containers' = IF r.exc = "None" THEN Append(containers, r.obj)
                     ELSE containers
    /\ discarded' = IF r.exc = "None" THEN discarded
                    ELSE discarded \cup {r.taken[i] : i \in 1..Len(r.taken)}
    /\ last' = [cls |-> cls, given |-> given, celsius |-> celsius,
                exc |-> r.exc, before |-> next_serial, built |-> r.exc = "None"]
    /\ UNCHANGED textVars

\* ShippingContainer(owner, contents) / RefrigeratedShippingContainer(owner,
\* contents, celsius)
New(cls, owner_code, given, celsius) ==
    /\ attempts < MaxConstructions
    /\ Apply(Construct(next_serial, cls, owner_code, StrContents("coffee"),
                       given, celsius),
             cls, given, celsius)

\* cls.create_empty(owner_code, ...)
CreateEmpty(cls, owner_code, given, celsius) ==
    /\ attempts < MaxConstructions
    /\ Apply(ConstructVia(next_serial, cls, owner_code, NoneContents,
                          given, celsius),
             cls, given, celsius)

\* cls.create_with_items(owner_code, items, ...)
CreateWithItems(cls, owner_code, items, given, celsius) ==
    /\ attempts < MaxConstructions
    /\ Apply(ConstructVia(next_serial, cls, owner_code, ListContents(items),
                          given, celsius),
             cls, given, celsius)

InitShipVars ==
    /\ next_serial = FirstSerial
    /\ containers = <<>>
    /\ serials = <<>>
    /\ initRuns = 0
    /\ attempts = 0
    /\ discarded = {}
    /\ last = NoAttempt

Init ==
    /\ \E e \in InitEntries : fs = [p \in Paths |-> IF p = TestFile THEN e ELSE Missing]
    /\ encoding \in Encodings
    /\ linesep \in Lineseps
    /\ pc = "idle"
    /\ filename = TestFile
    /\ lines = 0
    /\ chars = 0
    /\ f = NoHandle
    /\ result = <<>>
    /\ exc = "None"
    /\ fsAtCall = fs
    /\ seen = <<>>
    /\ prev = NoPrev
    /\ InitShipVars

Next ==
    \/ \E p \in Paths : Call(p)
    \/ \E ioerr \in BOOLEAN : ForLine(ioerr)
    \/ Return
    \/ Done
    \/ SetUp
    \/ TearDown

Spec == Init /\ [][Next]_vars

InitShip ==
    /\ fs = [p \in Paths |-> Missing]
    /\ encoding = "utf-8"
    /\ linesep = <<LF>>
    /\ pc = "idle"
    /\ filename = TestFile
    /\ lines = 0
    /\ chars = 0
    /\ f = NoHandle
    /\ result = <<>>
    /\ exc = "None"
    /\ fsAtCall = fs
    /\ seen = <<>>
    /\ prev = NoPrev
    /\ InitShipVars

Givens == {"absent", "positional", "keyword"}

NextShip ==
    \/ \E c \in Classes, o \in OwnerCodes, g \in Givens, t \in Celsius :
           New(c, o, g, t)
    \/ \E c \in Classes, o \in OwnerCodes, g \in Givens, t \in Celsius :
           CreateEmpty(c, o, g, t)
    \/ \E c \in Classes, o \in OwnerCodes, g \in Givens, t \in Celsius :
           CreateWithItems(c, o, <<"food", "textiles", "medicines">>, g, t)

ShipSpec == InitShip /\ [][NextShip]_vars

(***************************************************************************)
(* What a file holds, stated without the chunked reader: the code points   *)
(* of the whole content decoded in one piece, and the line terminators     *)
(* text mode recognizes in them ("\n", "\r\n" and a lone "\r").            *)
(***************************************************************************)
FileData == fsAtCall[filename].data

\* The whole content through the decoder, a block at a time.
RECURSIVE DecodeBlocks(_, _, _, _)
DecodeBlocks(enc, data, carry, acc) ==
    IF Len(data) <= BlockLen THEN
        LET d == Decode(enc, carry \o data, TRUE) IN
        [ok |-> d.ok, out |-> acc \o d.out]
    ELSE
        LET d == Decode(enc, carry \o SubSeq(data, 1, BlockLen), FALSE) IN
        IF ~d.ok THEN [ok |-> FALSE, out |-> <<>>]
        ELSE DecodeBlocks(enc, Drop(data, BlockLen), d.carry, acc \o d.out)

DecodedText(enc, data) == DecodeBlocks(enc, data, <<>>, <<>>).out

\* Position i is the last character of a line terminator.
EndsTerminator(cs, i) ==
    \/ cs[i] = LF
    \/ cs[i] = CR /\ ~(i < Len(cs) /\ cs[i + 1] = LF)

TerminatedSegments(cs) == Cardinality({i \in 1..Len(cs) : EndsTerminator(cs, i)})

HasUnterminatedTail(cs) == cs # <<>> /\ ~EndsTerminator(cs, Len(cs))

ExpectedLines(cs) ==
    TerminatedSegments(cs) + (IF HasUnterminatedTail(cs) THEN 1 ELSE 0)

CrLfPairs(cs) ==
    Cardinality({i \in 1..(Len(cs) - 1) : cs[i] = CR /\ cs[i + 1] = LF})

RECURSIVE SumLen(_)
SumLen(ls) == IF ls = <<>> THEN 0 ELSE Len(Head(ls)) + SumLen(Tail(ls))

IsFixture == FileData = FixtureBytes[encoding, linesep]

Finished == pc \in {"returned", "raised"}

(***************************************************************************)
(* C1: whenever analyze_text returns, the first element of the result is   *)
(* the number of terminated segments of the file plus one if the file ends *)
(* in a non-empty unterminated segment; an empty file gives 0 and the      *)
(* four-line fixture gives 4.                                              *)
(***************************************************************************)
C1_LineCount ==
    pc = "returned" =>
        /\ result[1] = ExpectedLines(DecodedText(encoding, FileData))
        /\ result[1] = Len(seen)
        /\ FileData = <<>> => result[1] = 0
        /\ IsFixture => result[1] = 4

C1_Witness ==
    /\ pc = "returned"
    /\ IsFixture
    /\ HasUnterminatedTail(DecodedText(encoding, FileData))
    /\ result[1] = 4

(***************************************************************************)
(* C2 as stated: whenever analyze_text returns, the second element of the  *)
(* result is the total number of decoded characters in the file.           *)
(***************************************************************************)
C2_Original ==
    pc = "returned" => result[2] = Len(DecodedText(encoding, FileData))

(***************************************************************************)
(* C2 as amended: whenever analyze_text returns, the second element of the *)
(* result is the sum of the lengths of the iterated lines, terminator      *)
(* included, which is the number of decoded characters of the file with    *)
(* every "\r\n" pair counted as one character; an empty file gives 0 and   *)
(* the four-line fixture gives 131.                                        *)
(***************************************************************************)
C2_CharCount ==
    pc = "returned" =>
        /\ result[2] = SumLen(seen)
        /\ result[2] = Len(DecodedText(encoding, FileData))
                           - CrLfPairs(DecodedText(encoding, FileData))
        /\ FileData = <<>> => result = <<0, 0>>
        /\ IsFixture => result[2] = 131

C2_Witness ==
    /\ pc = "returned"
    /\ CrLfPairs(DecodedText(encoding, FileData)) > 0
    /\ result[2] > 0

(***************************************************************************)
(* C3: a call on a path that does not exist ends with an I/O error raised  *)
(* to the caller; it never enters the loop and never returns a tuple.      *)
(***************************************************************************)
C3_NoSuchFile ==
    (pc # "idle" /\ fsAtCall[filename].kind = "missing") =>
        /\ pc = "raised"
        /\ IsInstance(exc, "IOError")
        /\ result = <<>>

C3_Witness ==
    /\ pc = "raised"
    /\ filename = "foobar"
    /\ exc = "FileNotFoundError"

(***************************************************************************)
(* C4: when a call has ended, by return or by exception, the file system   *)
(* (existence and content of every file) is as it was when the call began. *)
(***************************************************************************)
C4_NoModification == Finished => fs = fsAtCall

C4_Witness ==
    /\ pc = "returned"
    /\ fs[filename].kind = "file"
    /\ fs[filename].data # <<>>

(***************************************************************************)
(* C5: when a call has ended, no file object opened by it is still open:   *)
(* it is closed if open() succeeded and there is none if open() failed.    *)
(***************************************************************************)
C5_HandleClosed ==
    Finished =>
        /\ f.state # "open"
        /\ f.state = "none" <=> fsAtCall[filename].kind # "file"
                                 \/ ~fsAtCall[filename].readable

C5_Witness ==
    /\ pc = "raised"
    /\ f.state = "closed"
    /\ lines > 0

(***************************************************************************)
(* C6: every exception analyze_text raises is an I/O-class error, an       *)
(* instance of IOError.                                                    *)
(***************************************************************************)
C6_OnlyIOErrors == pc = "raised" => IsInstance(exc, "IOError")

(***************************************************************************)
(* C7: a result is returned only when the whole file has been consumed,    *)
(* and a call that raises returns nothing, whatever it had counted.        *)
(***************************************************************************)
C7_NoPartialResult ==
    /\ pc = "returned" =>
           /\ f.pos = Len(FileData)
           /\ f.eof
           /\ f.buf = <<>> /\ f.carry = <<>> /\ ~f.pendingcr
    /\ pc = "raised" => result = <<>>
    /\ result # <<>> => pc = "returned"

C7_Witness ==
    /\ pc = "raised"
    /\ lines > 0
    /\ f.pos < Len(FileData)
    /\ result = <<>>

(***************************************************************************)
(* C8: two calls in a row on the same path, with no modification of the    *)
(* file between them and no failure of the operating system's read in      *)
(* either, end the same way: the same tuple or the same exception.         *)
(***************************************************************************)
C8_SameResultTwice ==
    (/\ Finished
     /\ prev.valid
     /\ prev.path = filename
     /\ prev.exc # "OSError"
     /\ exc # "OSError") =>
        /\ result = prev.result
        /\ exc = prev.exc

C8_Witness ==
    /\ pc = "returned"
    /\ prev.valid
    /\ prev.path = filename
    /\ result = prev.result
    /\ result[1] > 1

(***************************************************************************)
(* Serial numbers.                                                         *)
(***************************************************************************)
\* int(digits)
RECURSIVE Num(_)
Num(ds) == IF ds = <<>> THEN 0 ELSE 10 * Num(Front(ds)) + ds[Len(ds)]

SerialOf(c) == Num(c.bic.serial)

TooHot(a) == a.cls = Refrigerated /\ a.given # "absent" /\ a.celsius > MAX_CELSIUS

(***************************************************************************)
(* C9: the serials handed out are 1964, 1965, ... in order, one per run of *)
(* ShippingContainer.__init__, whatever the class of the object and        *)
(* however it was constructed; next_serial is 1964 plus the number of runs *)
(* of ShippingContainer.__init__; the serials of the containers built are  *)
(* among those handed out, pairwise distinct and increasing.               *)
(***************************************************************************)
C9_SerialsDistinct ==
    /\ \A i \in 1..Len(serials) : serials[i] = 1964 + (i - 1)
    /\ Len(serials) = initRuns
    /\ next_serial = 1964 + initRuns
    /\ \A i \in 1..Len(containers) :
           \E k \in 1..Len(serials) : SerialOf(containers[i]) = serials[k]
    /\ \A i, j \in 1..Len(containers) :
           i < j => SerialOf(containers[i]) < SerialOf(containers[j])

C9_Witness ==
    /\ Len(containers) >= 3
    /\ \E i, j, k \in 1..Len(containers) :
           /\ containers[i].cls = Base
           /\ containers[j].cls = Refrigerated
           /\ containers[j].contents.kind = "list"
           /\ containers[k].contents.kind = "None"
    /\ next_serial = 1964 + 3

(***************************************************************************)
(* C10: a RefrigeratedShippingContainer constructed with celsius above     *)
(* MAX_CELSIUS, once its arguments are bound to the parameters,            *)
(* raises ValueError and adds no container, yet next_serial has advanced   *)
(* by one; a serial taken by a construction that raised belongs to no      *)
(* container, then or later.                                               *)
(***************************************************************************)
C10_FailedConstructionBurnsSerial ==
    /\ (TooHot(last) /\ last.exc # "TypeError") =>
           /\ last.exc = "ValueError"
           /\ ~last.built
           /\ next_serial = last.before + 1
           /\ last.before \in discarded
    /\ \A s \in discarded :
           \A i \in 1..Len(containers) : SerialOf(containers[i]) # s

C10_Witness ==
    /\ TooHot(last)
    /\ last.exc = "ValueError"
    /\ \E i \in 1..Len(containers) : SerialOf(containers[i]) < last.before
    /\ next_serial = last.before + 1

=============================================================================
